---- MODULE Spec2Model ----
(***************************************************************************)
(* Model of trees::local (src/local/node.rs, src/local/heap.rs): nodes     *)
(* linked by `down` (last child) and `right` (next sibling, circular),     *)
(* owned by Tree and Forest handles.                                       *)
(***************************************************************************)
EXTENDS Integers, Sequences, FiniteSets, TLC

\* ---- bounds -------------------------------------------------------------
MaxNodes == 4          \* addresses the allocator can hand out

Null == 0              \* null_mut()
Nodes == 1..MaxNodes
Ptr == Nodes \cup {Null}
DataVals == {0}        \* payloads (no operation below reads them)

VARIABLES
    down,      \* Node::down  : last child, or Null
    right,     \* Node::right : next sibling (circular)
    data,      \* Node::data
    live,      \* addresses currently allocated (Box::into_raw .. Box::from_raw)
    trees,     \* the roots held by the caller's non-empty Tree handles
    forests,   \* the tail pointers held by the caller's non-empty Forest handles
    last       \* the call made by the last step: its arguments, the state it ran on, its result

vars == <<down, right, data, live, trees, forests, last>>

\* The heap as one value, so the methods are functions from heap to heap.
Heap == [down |-> down, right |-> right]

\* ---- Node's private helpers (node.rs 13-26) -------------------------------
set_child(h, n, child) == [h EXCEPT !.down[n] = child]
reset_child(h, n) == set_child(h, n, Null)
is_leaf(h, n) == h.down[n] = Null
set_sib(h, n, r) == [h EXCEPT !.right[n] = r]
reset_sib(h, n) == [h EXCEPT !.right[n] = n]
has_no_sib(h, n) == h.right[n] = n
head(h, n) == h.right[h.down[n]]
tail(h, n) == h.down[n]
has_only_one_child(h, n) == head(h, n) = tail(h, n)
\* mutant: the old head is taken for the new one
new_head_stale(h, n) == head(h, n)
new_head(h, n) == h.right[head(h, n)]
adopt(h, n, child) == [h EXCEPT !.right[tail(h, n)] = child]

\* ---- Forest's helpers used by prepend/append ------------------------------
forest_is_empty(sub) == sub = Null
forest_head(h, sub) == h.right[sub]
forest_tail(sub) == sub
forest_set_sib(h, sub, sib) == [h EXCEPT !.right[sub] = sib]

\* ---- heap.rs --------------------------------------------------------------
\* mutant: reset_sib is not called, right stays null
make_node_no_reset_sib(h, n) == [h EXCEPT !.down[n] = Null, !.right[n] = Null]

make_node(h, n) ==
    LET h1 == [h EXCEPT !.down[n] = Null, !.right[n] = Null]
    IN  reset_sib(h1, n)

\* ---- Node's public methods (node.rs 38-143), on the root pointer / tail
\* ---- pointer that the consumed handle holds --------------------------------
\* mutant: nothing is linked under a leafless node
push_front_leaf_forgets(h, self, root) ==
    IF is_leaf(h, self)
    THEN h
    ELSE LET h1 == set_sib(h, root, head(h, self))
         IN  adopt(h1, self, root)

\* mutant: the incoming root is not linked to the old head
push_front_no_set_sib(h, self, root) ==
    IF is_leaf(h, self)
    THEN set_child(h, self, root)
    ELSE adopt(h, self, root)

\* mutant: the incoming root also becomes the tail
push_front_sets_child(h, self, root) ==
    IF is_leaf(h, self)
    THEN set_child(h, self, root)
    ELSE LET h1 == set_sib(h, root, head(h, self))
         IN  set_child(adopt(h1, self, root), self, root)

push_front(h, self, root) ==
    IF is_leaf(h, self)
    THEN set_child(h, self, root)
    ELSE LET h1 == set_sib(h, root, head(h, self))
         IN  adopt(h1, self, root)

\* mutant: the non-leaf case is not spliced
push_back_no_splice(h, self, root) == set_child(h, self, root)

\* mutant: the tail is not moved when there are children already
push_back_keeps_tail(h, self, root) ==
    IF ~is_leaf(h, self)
    THEN LET h1 == set_sib(h, root, head(h, self))
         IN  adopt(h1, self, root)
    ELSE set_child(h, self, root)

push_back(h, self, root) ==
    LET h2 == IF ~is_leaf(h, self)
              THEN LET h1 == set_sib(h, root, head(h, self))
                   IN  adopt(h1, self, root)
              ELSE h
    IN  set_child(h2, self, root)

\* mutant: the detached node keeps its old right
pop_front_no_reset_sib(h, self) ==
    IF is_leaf(h, self)
    THEN [heap |-> h, ret |-> Null]
    ELSE LET front == head(h, self)
             h1 == IF has_only_one_child(h, self)
                   THEN reset_child(h, self)
                   ELSE [h EXCEPT !.right[tail(h, self)] = new_head(h, self)]
         IN  [heap |-> h1, ret |-> front]

\* mutant: reset_child is called on the detached node, not on self
pop_front_resets_front_child(h, self) ==
    IF is_leaf(h, self)
    THEN [heap |-> h, ret |-> Null]
    ELSE LET front == head(h, self)
             h1 == IF has_only_one_child(h, self)
                   THEN reset_child(h, front)
                   ELSE [h EXCEPT !.right[tail(h, self)] = new_head(h, self)]
         IN  [heap |-> reset_sib(h1, front), ret |-> front]

\* mutant: the only-child case is not told apart
pop_front_keeps_down(h, self) ==
    IF is_leaf(h, self)
    THEN [heap |-> h, ret |-> Null]
    ELSE LET front == head(h, self)
             h1 == [h EXCEPT !.right[tail(h, self)] = new_head(h, self)]
         IN  [heap |-> reset_sib(h1, front), ret |-> front]

\* returns the heap and the root of the returned tree (Null for None)
pop_front(h, self) ==
    IF is_leaf(h, self)
    THEN [heap |-> h, ret |-> Null]
    ELSE LET front == head(h, self)
             h1 == IF has_only_one_child(h, self)
                   THEN reset_child(h, self)
                   ELSE [h EXCEPT !.right[tail(h, self)] = new_head(h, self)]
         IN  [heap |-> reset_sib(h1, front), ret |-> front]

\* mutant: the forest's tail becomes the tail
prepend_sets_child(h, self, sub) ==
    IF ~forest_is_empty(sub)
    THEN IF is_leaf(h, self)
         THEN set_child(h, self, forest_tail(sub))
         ELSE LET fh == forest_head(h, sub)
                  h1 == forest_set_sib(h, sub, head(h, self))
              IN  set_child(adopt(h1, self, fh), self, forest_tail(sub))
    ELSE h

prepend(h, self, sub) ==
    IF ~forest_is_empty(sub)
    THEN IF is_leaf(h, self)
         THEN set_child(h, self, forest_tail(sub))
         ELSE LET fh == forest_head(h, sub)
                  h1 == forest_set_sib(h, sub, head(h, self))
              IN  adopt(h1, self, fh)
    ELSE h

\* mutant: the tail is not moved to the forest's tail
append_no_set_child(h, self, sub) ==
    IF ~forest_is_empty(sub)
    THEN IF is_leaf(h, self)
         THEN set_child(h, self, forest_tail(sub))
         ELSE LET fh == forest_head(h, sub)
                  h1 == forest_set_sib(h, sub, head(h, self))
              IN  adopt(h1, self, fh)
    ELSE h

\* mutant: the tail is set to the forest's tail even for an empty forest
append_always_set_child(h, self, sub) ==
    LET h3 == IF ~forest_is_empty(sub) /\ ~is_leaf(h, self)
              THEN LET fh == forest_head(h, sub)
                       h1 == forest_set_sib(h, sub, head(h, self))
                   IN  adopt(h1, self, fh)
              ELSE h
    IN  set_child(h3, self, forest_tail(sub))

append(h, self, sub) ==
    IF ~forest_is_empty(sub)
    THEN IF is_leaf(h, self)
         THEN set_child(h, self, forest_tail(sub))
         ELSE LET fh == forest_head(h, sub)
                  h1 == forest_set_sib(h, sub, head(h, self))
                  h2 == adopt(h1, self, fh)
              IN  set_child(h2, self, forest_tail(sub))
    ELSE h

\* ---- traversal -------------------------------------------------------------
\* Iter::new(head, tail) consumed to the end: walks `right` from head to tail
\* inclusive.  A walk that meets null or does not come back to tail within
\* MaxNodes steps ends in Null (such a chain is not a child list).
RECURSIVE Walk(_, _, _, _)
Walk(h, cur, tl, fuel) ==
    IF cur = Null \/ fuel = 0 THEN <<Null>>
    ELSE IF cur = tl THEN <<cur>>
    ELSE <<cur>> \o Walk(h, h.right[cur], tl, fuel - 1)

chain(h, tl) == IF tl = Null THEN <<>> ELSE Walk(h, h.right[tl], tl, MaxNodes)

children(h, n) ==
    IF is_leaf(h, n) THEN <<>> ELSE Walk(h, head(h, n), tail(h, n), MaxNodes)

\* mutant: the iterator is built from tail to head
children_mut_from_tail(h, n) ==
    IF is_leaf(h, n) THEN <<>> ELSE Walk(h, tail(h, n), head(h, n), MaxNodes)

\* IterMut::new(head, tail) consumed to the end
children_mut(h, n) ==
    IF is_leaf(h, n) THEN <<>> ELSE Walk(h, head(h, n), tail(h, n), MaxNodes)

\* mutant: each tree is pushed to the front
RECURSIVE extend_push_front(_, _, _)
extend_push_front(h, self, ts) ==
    IF ts = <<>> THEN h
    ELSE extend_push_front(push_front(h, self, Head(ts)), self, Tail(ts))

\* Extend::extend: for child in iter { self.push_back(child) }
RECURSIVE extend(_, _, _)
extend(h, self, ts) ==
    IF ts = <<>> THEN h
    ELSE extend(push_back(h, self, Head(ts)), self, Tail(ts))

Range(s) == {s[i] : i \in 1..Len(s)}

\* ---- PartialEq / PartialOrd / Ord for Node (node.rs 246-274) ---------------------
\* d is the payload of every node; payloads are integers, compared as such
RECURSIVE node_eq(_, _, _, _), node_ne(_, _, _, _), node_cmp(_, _, _, _)
RECURSIVE node_partial_cmp(_, _, _, _)

\* Iterator::eq over two child sequences, elements compared with Node::eq
RECURSIVE iter_eq(_, _, _, _)
iter_eq(h, d, s, t) ==
    IF s = <<>> /\ t = <<>> THEN TRUE
    ELSE IF s = <<>> \/ t = <<>> THEN FALSE
    ELSE IF ~node_eq(h, d, Head(s), Head(t)) THEN FALSE
    ELSE iter_eq(h, d, Tail(s), Tail(t))

\* Iterator::ne, elements compared with Node::ne
RECURSIVE iter_ne(_, _, _, _)
iter_ne(h, d, s, t) ==
    IF s = <<>> /\ t = <<>> THEN FALSE
    ELSE IF s = <<>> \/ t = <<>> THEN TRUE
    ELSE IF node_ne(h, d, Head(s), Head(t)) THEN TRUE
    ELSE iter_ne(h, d, Tail(s), Tail(t))

\* Iterator::cmp: lexicographic, elements compared with Node::cmp
RECURSIVE iter_cmp(_, _, _, _)
iter_cmp(h, d, s, t) ==
    IF s = <<>> /\ t = <<>> THEN "Equal"
    ELSE IF s = <<>> THEN "Less"
    ELSE IF t = <<>> THEN "Greater"
    ELSE LET o == node_cmp(h, d, Head(s), Head(t))
         IN  IF o # "Equal" THEN o ELSE iter_cmp(h, d, Tail(s), Tail(t))

\* Iterator::partial_cmp, elements compared with Node::partial_cmp
RECURSIVE iter_partial_cmp(_, _, _, _)
iter_partial_cmp(h, d, s, t) ==
    IF s = <<>> /\ t = <<>> THEN "Equal"
    ELSE IF s = <<>> THEN "Less"
    ELSE IF t = <<>> THEN "Greater"
    ELSE LET o == node_partial_cmp(h, d, Head(s), Head(t))
         IN  IF o # "Equal" THEN o ELSE iter_partial_cmp(h, d, Tail(s), Tail(t))

\* Ord::cmp of two payloads
data_cmp(x, y) == IF x < y THEN "Less" ELSE IF x > y THEN "Greater" ELSE "Equal"

\* mutant: the children are compared pairwise as far as both sequences go
node_eq_zip(h, d, a, b) ==
    LET s == children(h, a)
        t == children(h, b)
        m == IF Len(s) < Len(t) THEN Len(s) ELSE Len(t)
    IN  d[a] = d[b] /\ \A i \in 1..m : node_eq(h, d, s[i], t[i])

node_eq(h, d, a, b) ==
    d[a] = d[b] /\ iter_eq(h, d, children(h, a), children(h, b))

node_ne(h, d, a, b) ==
    d[a] # d[b] \/ iter_ne(h, d, children(h, a), children(h, b))

\* Some(order) is written as the order: integer payloads always compare
node_partial_cmp(h, d, a, b) ==
    LET order == data_cmp(d[a], d[b])
    IN  IF order = "Less" THEN "Less"
        ELSE IF order = "Greater" THEN "Greater"
        ELSE iter_partial_cmp(h, d, children(h, a), children(h, b))

\* mutant: a sequence that runs out first counts as equal
RECURSIVE iter_cmp_zip(_, _, _, _)
iter_cmp_zip(h, d, s, t) ==
    IF s = <<>> \/ t = <<>> THEN "Equal"
    ELSE LET o == node_cmp(h, d, Head(s), Head(t))
         IN  IF o # "Equal" THEN o ELSE iter_cmp_zip(h, d, Tail(s), Tail(t))

node_cmp_zip(h, d, a, b) ==
    LET order == data_cmp(d[a], d[b])
    IN  IF order = "Less" THEN "Less"
        ELSE IF order = "Greater" THEN "Greater"
        ELSE iter_cmp_zip(h, d, children(h, a), children(h, b))

node_cmp(h, d, a, b) ==
    LET order == data_cmp(d[a], d[b])
    IN  IF order = "Less" THEN "Less"
        ELSE IF order = "Greater" THEN "Greater"
        ELSE iter_cmp(h, d, children(h, a), children(h, b))

\* nodes reachable from a set of pointers via down/right
RECURSIVE Closure(_, _, _)
Closure(h, S, fuel) ==
    LET T == (S \cup {h.down[x] : x \in S} \cup {h.right[x] : x \in S}) \ {Null}
    IN  IF fuel = 0 \/ T = S THEN S ELSE Closure(h, T, fuel - 1)

Reach(h, p) == IF p = Null THEN {} ELSE Closure(h, {p}, MaxNodes)

Owned == UNION {Reach(Heap, p) : p \in trees \cup forests}

\* ---- Tree / Forest handles ---------------------------------------------------
\* clear(): the handle gives up what it held
tree_clear(root) == Null
forest_clear(sub) == Null
\* Drop for Tree / Forest: deallocates every node the handle still owns
drop_set(h, p) == Reach(h, p)

\* what the consumed handle holds when the method returns (node.rs 47, 68,
\* 116, 134/141): tree.clear() / forest.clear() on the branches that run it
\* mutant: the leafless branch returns before clear()
push_front_after_leaf_unclear(h, self, root) ==
    IF is_leaf(h, self) THEN root ELSE tree_clear(root)
push_front_after(h, self, root) == tree_clear(root)
push_back_after(h, self, root) == tree_clear(root)
prepend_after(h, self, sub) ==
    IF ~forest_is_empty(sub) THEN forest_clear(sub) ELSE sub
append_after(h, self, sub) ==
    IF ~forest_is_empty(sub) THEN forest_clear(sub) ELSE sub

\* ---- the record of a call ---------------------------------------------------
\* arg: the pointer the consumed handle held; after: what it held when the call
\* returned and it was dropped; ret: the root of the returned tree
Call(op, self, arg, after, ret) ==
    [op |-> op, self |-> self, arg |-> arg, after |-> after, ret |-> ret,
     down0 |-> down, right0 |-> right, data0 |-> data, live0 |-> live,
     trees0 |-> trees, forests0 |-> forests, items |-> <<>>]

Pre == [down |-> last.down0, right |-> last.right0]

\* ---- initial state ----------------------------------------------------------
Init ==
    /\ down = [n \in Nodes |-> Null]
    /\ right = [n \in Nodes |-> Null]
    /\ data = [n \in Nodes |-> 0]
    /\ live = {}
    /\ trees = {}
    /\ forests = {}
    /\ last = Call("init", Null, Null, Null, Null)

\* deallocated storage holds nothing the program may read
Free(h, S) ==
    [down |-> [n \in Nodes |-> IF n \in S THEN Null ELSE h.down[n]],
     right |-> [n \in Nodes |-> IF n \in S THEN Null ELSE h.right[n]]]

\* the heap a call leaves, after the consumed handle (holding `after`) is dropped
Finish(h, after) ==
    LET S == drop_set(h, after)
        h1 == Free(h, S)
    IN  /\ down' = h1.down
        /\ right' = h1.right
        /\ data' = [n \in Nodes |-> IF n \in S THEN 0 ELSE data[n]]
        /\ live' = live \ S

\* a &mut Node borrowed from any handle but the one being consumed
SelfFor(p) == UNION {Reach(Heap, q) : q \in (trees \cup forests) \ {p}}

\* ---- actions ----------------------------------------------------------------
\* tr(d): Tree::new(d) = Tree::from(make_node(d))
NewTree ==
    \E n \in Nodes \ live, d \in DataVals :
        /\ LET h1 == make_node(Heap, n) IN down' = h1.down /\ right' = h1.right
        /\ data' = [data EXCEPT ![n] = d]
        /\ live' = live \cup {n}
        /\ trees' = trees \cup {n}
        /\ last' = Call("make_node", Null, d, Null, n)
        /\ UNCHANGED forests

PushFront ==
    \E root \in trees : \E self \in SelfFor(root) :
        /\ Finish(push_front(Heap, self, root), push_front_after(Heap, self, root))
        /\ trees' = trees \ {root}
        /\ last' = Call("push_front", self, root, push_front_after(Heap, self, root), Null)
        /\ UNCHANGED forests

PushBack ==
    \E root \in trees : \E self \in SelfFor(root) :
        /\ Finish(push_back(Heap, self, root), push_back_after(Heap, self, root))
        /\ trees' = trees \ {root}
        /\ last' = Call("push_back", self, root, push_back_after(Heap, self, root), Null)
        /\ UNCHANGED forests

PopFront ==
    \E self \in Owned :
        LET r == pop_front(Heap, self) IN
        /\ Finish(r.heap, Null)
        /\ trees' = trees \cup ({r.ret} \ {Null})
        /\ last' = Call("pop_front", self, Null, Null, r.ret)
        /\ UNCHANGED forests

\* the forest argument: a handle the caller holds, or Forest::new()
PrependForest ==
    \E sub \in forests \cup {Null} : \E self \in SelfFor(sub) :
        /\ Finish(prepend(Heap, self, sub), prepend_after(Heap, self, sub))
        /\ forests' = forests \ {sub}
        /\ last' = Call("prepend", self, sub, prepend_after(Heap, self, sub), Null)
        /\ UNCHANGED trees

AppendForest ==
    \E sub \in forests \cup {Null} : \E self \in SelfFor(sub) :
        /\ Finish(append(Heap, self, sub), append_after(Heap, self, sub))
        /\ forests' = forests \ {sub}
        /\ last' = Call("append", self, sub, append_after(Heap, self, sub), Null)
        /\ UNCHANGED trees

\* -tr(a) and forest - tr(b): the tree becomes the last tree of the forest
ForestPushBack ==
    \E sub \in forests \cup {Null}, root \in trees :
        LET h1 == IF ~forest_is_empty(sub)
                  THEN LET h0 == set_sib(Heap, root, forest_head(Heap, sub))
                       IN  forest_set_sib(h0, sub, root)
                  ELSE Heap
        IN  /\ Finish(h1, tree_clear(root))
            /\ forests' = (forests \ {sub}) \cup {root}
            /\ trees' = trees \ {root}
            /\ last' = Call("forest_push_back", Null, root, tree_clear(root), Null)

DropTree ==
    \E root \in trees :
        /\ Finish(Heap, root)
        /\ trees' = trees \ {root}
        /\ last' = Call("drop_tree", Null, root, root, Null)
        /\ UNCHANGED forests

DropForest ==
    \E sub \in forests :
        /\ Finish(Heap, sub)
        /\ forests' = forests \ {sub}
        /\ last' = Call("drop_forest", Null, sub, sub, Null)
        /\ UNCHANGED trees

\* tree.children() / tree.children_mut() created and consumed to the end;
\* neither method nor the iterators write a down or a right
Traverse ==
    \E self \in Owned, m \in {"children", "children_mut"} :
        /\ last' = [Call(m, self, Null, Null, Null) EXCEPT
                       !.items = IF m = "children" THEN children(Heap, self)
                                 ELSE children_mut(Heap, self)]
        /\ UNCHANGED <<down, right, data, live, trees, forests>>

\* the sequences of distinct elements of S, the empty one included
DistinctSeqs(S) ==
    {q \in UNION {[1..k -> S] : k \in 0..Cardinality(S)} :
        \A i, j \in 1..Len(q) : i # j => q[i] # q[j]}

\* self.extend(iter) with an iterator that yields the trees ts in order
Extend ==
    \E ts \in DistinctSeqs(trees) :
        \E self \in UNION {Reach(Heap, q) : q \in (trees \cup forests) \ Range(ts)} :
            /\ Finish(extend(Heap, self, ts), Null)
            /\ trees' = trees \ Range(ts)
            /\ last' = [Call("extend", self, Null, Null, Null) EXCEPT !.items = ts]
            /\ UNCHANGED forests

\* Building trees whose payloads differ, as in tr(0) /tr(1)/tr(2); the call
\* record is not kept.
Payloads == {0, 1}
NewTreeData ==
    \E n \in Nodes \ live, d \in Payloads :
        /\ LET h1 == make_node(Heap, n) IN down' = h1.down /\ right' = h1.right
        /\ data' = [data EXCEPT ![n] = d]
        /\ live' = live \cup {n}
        /\ trees' = trees \cup {n}
        /\ UNCHANGED <<forests, last>>

BuildPushBack ==
    \E root \in trees : \E self \in SelfFor(root) :
        /\ Finish(push_back(Heap, self, root), push_back_after(Heap, self, root))
        /\ trees' = trees \ {root}
        /\ UNCHANGED <<forests, last>>

BuildPushFront ==
    \E root \in trees : \E self \in SelfFor(root) :
        /\ Finish(push_front(Heap, self, root), push_front_after(Heap, self, root))
        /\ trees' = trees \ {root}
        /\ UNCHANGED <<forests, last>>

Next ==
    \/ NewTree
    \/ PushFront
    \/ PushBack
    \/ PopFront
    \/ PrependForest
    \/ AppendForest
    \/ ForestPushBack
    \/ DropTree
    \/ DropForest

Spec == Init /\ [][Next]_vars

\* trees only, with traversal and extend
NextTraverse ==
    \/ NewTree
    \/ PushFront
    \/ PushBack
    \/ PopFront
    \/ DropTree
    \/ Traverse
    \/ Extend

SpecTraverse == Init /\ [][NextTraverse]_vars

\* trees only, with payloads that differ
NextData ==
    \/ NewTreeData
    \/ BuildPushBack
    \/ BuildPushFront

SpecData == Init /\ [][NextData]_vars

TypeOK ==
    /\ down \in [Nodes -> Ptr]
    /\ right \in [Nodes -> Ptr]
    /\ live \subseteq Nodes
    /\ trees \subseteq Nodes
    /\ forests \subseteq Nodes

\* ---- vocabulary of the properties --------------------------------------------
NoDup(s) == \A i, j \in 1..Len(s) : i # j => s[i] # s[j]

\* a subtree as a value: the node and, recursively, its children in order
RECURSIVE Shape(_, _, _)
Shape(h, n, fuel) ==
    IF n = Null \/ fuel = 0 THEN <<n>>
    ELSE LET c == children(h, n)
         IN  <<n, [i \in 1..Len(c) |-> Shape(h, c[i], fuel - 1)]>>

Subtree(h, n) == Shape(h, n, MaxNodes)

\* every sibling list of the current state: the child lists, the forests'
\* chains, and each standalone tree root on its own
SiblingLists ==
    {children(Heap, p) : p \in live} \cup {chain(Heap, f) : f \in forests}
        \cup {<<r>> : r \in trees}

\* the nodes met by following right alone
RECURSIVE Orbit(_, _, _)
Orbit(h, S, fuel) ==
    LET T == (S \cup {h.right[x] : x \in S}) \ {Null}
    IN  IF fuel = 0 \/ T = S THEN S ELSE Orbit(h, T, fuel - 1)

Owners(n) == {p \in trees \cup forests : n \in Reach(Heap, p)}

Ops == {"push_front", "push_back", "pop_front", "prepend", "append"}
N0 == last.self
C0 == children(Pre, last.self)      \* the child sequence the call found
S0 == chain(Pre, last.arg)          \* the forest's trees the call was given

\* ---- C1 ------------------------------------------------------------------------
\* C1: every live node's right is non-null (and points at a live node), and
\* right is the node itself exactly when the sibling list the node is in has
\* no other element (tree root, only child, only tree of a forest).
C1_RightSelfIffAlone ==
    \A n \in live :
        /\ right[n] # Null
        /\ right[n] \in live
        /\ \A L \in SiblingLists :
               n \in Range(L) => (right[n] = n <=> Len(L) = 1)

\* reached: an only child, a child with siblings and a two-tree forest at once
C1_Witness ==
    /\ \E p \in live : Len(children(Heap, p)) >= 2
    /\ \E f \in forests : Len(chain(Heap, f)) >= 2
    /\ last.op \in Ops

\* ---- C2 ------------------------------------------------------------------------
\* C2: for every non-leaf node P the walk along right from P.down.right comes
\* back to P.down without meeting null, visits distinct live nodes, each
\* linked to the next, P.down.right is the first element again, and the
\* cycle of right through P.down holds these nodes and no other.
C2_ChildChainClosed ==
    \A p \in live :
        ~is_leaf(Heap, p) =>
            LET c == children(Heap, p) IN
            /\ Null \notin Range(c)
            /\ Range(c) \subseteq live
            /\ NoDup(c)
            /\ c[Len(c)] = down[p]
            /\ right[down[p]] = c[1]
            /\ \A i \in 1..(Len(c) - 1) : right[c[i]] = c[i + 1]
            /\ Orbit(Heap, {down[p]}, MaxNodes) = Range(c)

\* reached: a pop_front left a list of two or more children behind
C2_Witness ==
    /\ last.op = "pop_front"
    /\ last.ret # Null
    /\ Len(children(Heap, N0)) >= 2

\* ---- C3 ------------------------------------------------------------------------
\* C3: every live node is reachable through down/right from exactly one
\* owning handle.
C3_SingleOwner ==
    /\ \A n \in live : Owners(n) # {}
    /\ \A p, q \in trees \cup forests :
           p # q => Reach(Heap, p) \cap Reach(Heap, q) \cap live = {}

\* reached: several handles at once, right after a consuming call
C3_Witness ==
    /\ last.op \in {"push_front", "push_back", "prepend", "append"}
    /\ last.arg # Null
    /\ trees # {}
    /\ forests # {}
    /\ Cardinality(live) = MaxNodes

\* ---- C4 ------------------------------------------------------------------------
\* C4: right after N.push_front(t), N.pop_front() returns the tree rooted at
\* t's root with the subtree t had before the push, and leaves N's child
\* sequence and N.down as they were before the push.
C4_PushPopFrontInverse ==
    last.op = "push_front" =>
        LET r == pop_front(Heap, N0) IN
        /\ r.ret = last.arg
        /\ r.ret # Null
        /\ r.heap.right[r.ret] = r.ret
        /\ Subtree(r.heap, r.ret) = Subtree(Pre, last.arg)
        /\ children(r.heap, N0) = C0
        /\ r.heap.down[N0] = Pre.down[N0]

\* reached: a tree with a child of its own was pushed onto a non-leaf node
C4_Witness ==
    /\ last.op = "push_front"
    /\ Len(C0) >= 1
    /\ ~is_leaf(Pre, last.arg)

\* ---- C5 ------------------------------------------------------------------------
\* C5: after N.append(F) the children of N are the former children followed
\* by F's former trees in order, N.down is F's former tail when F was not
\* empty, and F is empty.
C5_AppendSequence ==
    last.op = "append" =>
        /\ children(Heap, N0) = C0 \o S0
        /\ (S0 # <<>> => down[N0] = last.arg)
        /\ forest_is_empty(last.after)
        /\ last.arg \notin forests

\* reached: a forest of two trees was appended to a non-leaf node
C5_Witness ==
    /\ last.op = "append"
    /\ Len(C0) >= 1
    /\ Len(S0) >= 2

\* ---- C6 ------------------------------------------------------------------------
\* C6: after N.prepend(F) the children of N are F's former trees followed by
\* the former children; N.down is unchanged when N had children and is F's
\* former tail when it had none; an empty F changes nothing; F is empty.
C6_PrependSequence ==
    last.op = "prepend" =>
        /\ children(Heap, N0) = S0 \o C0
        /\ (C0 # <<>> => down[N0] = Pre.down[N0])
        /\ (C0 = <<>> => down[N0] = last.arg)
        /\ (S0 = <<>> => Heap = Pre)
        /\ forest_is_empty(last.after)
        /\ last.arg \notin forests

\* reached: a forest of two trees was prepended to a non-leaf node
C6_Witness ==
    /\ last.op = "prepend"
    /\ Len(C0) >= 1
    /\ Len(S0) >= 2

\* ---- C7 ------------------------------------------------------------------------
\* C7: push_back(t) leaves the former children followed by t's root and
\* N.down = t's root; push_front(t) leaves t's root followed by the former
\* children and, when there were children, N.down unchanged.
C7_PushSequence ==
    /\ last.op = "push_back" =>
           /\ children(Heap, N0) = C0 \o <<last.arg>>
           /\ down[N0] = last.arg
    /\ last.op = "push_front" =>
           /\ children(Heap, N0) = <<last.arg>> \o C0
           /\ (C0 # <<>> => down[N0] = Pre.down[N0])

\* reached: a push_back onto a node that already had two children
C7_Witness ==
    /\ last.op = "push_back"
    /\ Len(C0) >= 2

\* ---- C8 ------------------------------------------------------------------------
\* C8: pop_front on a node with children c1..ck returns the tree rooted at
\* c1 with c1.right = c1 and leaves c2..ck in order; with k = 1 the node is
\* leafless afterwards, otherwise its down is unchanged and down.right is c2.
C8_PopFrontSequence ==
    (last.op = "pop_front" /\ ~is_leaf(Pre, N0)) =>
        /\ last.ret = C0[1]
        /\ last.ret \in trees
        /\ right[last.ret] = last.ret
        /\ children(Heap, N0) = Tail(C0)
        /\ (Len(C0) = 1 => down[N0] = Null)
        /\ (Len(C0) > 1 => down[N0] = Pre.down[N0] /\ right[down[N0]] = C0[2])

\* reached: the first of three children was popped
C8_Witness ==
    /\ last.op = "pop_front"
    /\ Len(C0) >= 3

\* ---- C9 ------------------------------------------------------------------------
\* C9: pop_front on a leafless node returns None and changes no down or
\* right; append and prepend of an empty forest change no down or right.
C9_NoOpCases ==
    /\ (last.op = "pop_front" /\ is_leaf(Pre, N0)) =>
           /\ last.ret = Null
           /\ Heap = Pre
           /\ trees = last.trees0
           /\ live = last.live0
    /\ (last.op \in {"append", "prepend"} /\ forest_is_empty(last.arg)) =>
           /\ Heap = Pre
           /\ live = last.live0

\* reached: an empty forest was appended to a node that has children
C9_Witness ==
    /\ last.op = "append"
    /\ forest_is_empty(last.arg)
    /\ Len(C0) >= 2

\* ---- C10 -----------------------------------------------------------------------
\* while let Some(t) = src.pop_front() { dst.push_back(t) }
RECURSIVE Drain(_, _, _, _)
Drain(h, src, dst, fuel) ==
    LET r == pop_front(h, src) IN
    IF r.ret = Null \/ fuel = 0 THEN h
    ELSE Drain(push_back(r.heap, dst, r.ret), src, dst, fuel - 1)

\* a source node and a leafless receiving node borrowed from another handle
DrainPairs ==
    UNION {Reach(Heap, pq[1]) \X {d \in Reach(Heap, pq[2]) : is_leaf(Heap, d)} :
              pq \in {x \in (trees \cup forests) \X (trees \cup forests) : x[1] # x[2]}}

Consuming == {"push_front", "push_back", "prepend", "append"}

\* C11: after push_front, push_back, prepend and append the consumed handle
\* holds null, so its drop deallocates nothing: no node is deallocated by the
\* call and every node in the receiving node's child chain is live.
C11_ConsumedHandleEmpty ==
    last.op \in Consuming =>
        /\ last.after = Null
        /\ drop_set(Heap, last.after) = {}
        /\ live = last.live0
        /\ Range(children(Heap, N0)) \subseteq live
        /\ Reach(Heap, N0) \subseteq live

\* reached: a non-empty forest was prepended to a leafless node (the branch
\* whose clear() sits inside the emptiness test)
C11_Witness ==
    /\ last.op = "prepend"
    /\ is_leaf(Pre, N0)
    /\ Len(S0) >= 2

\* ---- C12 -----------------------------------------------------------------------
\* C12: make_node returns a node that was not live, with down = null and
\* right = itself, and leaves down and right of every other node as they were.
C12_MakeNodeFresh ==
    last.op = "make_node" =>
        /\ last.ret \in Nodes \ last.live0
        /\ live = last.live0 \cup {last.ret}
        /\ down[last.ret] = Null
        /\ right[last.ret] = last.ret
        /\ \A n \in Nodes \ {last.ret} :
               down[n] = last.down0[n] /\ right[n] = last.right0[n]

\* reached: a node was made while a non-leaf node with two children was live
C12_Witness ==
    /\ last.op = "make_node"
    /\ \E p \in last.live0 : Len(children(Pre, p)) >= 2

\* ---- C13 -----------------------------------------------------------------------
\* C13: is_leaf holds exactly of the nodes whose children() sequence is empty;
\* a node just made is a leaf; right after push_front, push_back, or append /
\* prepend of a non-empty forest the receiving node is not a leaf.
C13_LeafIffNoChildren ==
    /\ \A n \in live : is_leaf(Heap, n) <=> Len(children(Heap, n)) = 0
    /\ \A n \in live : down[n] # Null => Len(children(Heap, n)) >= 1
    /\ last.op = "make_node" => is_leaf(Heap, last.ret)
    /\ last.op \in {"push_front", "push_back"} => ~is_leaf(Heap, N0)
    /\ (last.op \in {"append", "prepend"} /\ ~forest_is_empty(last.arg)) =>
           ~is_leaf(Heap, N0)

\* reached: a push_front onto a node that was a leaf
C13_Witness ==
    /\ last.op = "push_front"
    /\ is_leaf(Pre, N0)
    /\ ~is_leaf(Heap, N0)

\* ---- C15 -----------------------------------------------------------------------
\* C15: on a leafless node push_front and push_back give the same heap: the
\* node has the one child t's root, down is t's root, and that child's right
\* is the child itself; every root a Tree handle holds points right at itself.
C15_PushOntoLeaf ==
    /\ \A r \in trees : right[r] = r
    /\ (last.op \in {"push_front", "push_back"} /\ is_leaf(Pre, N0)) =>
           /\ children(Heap, N0) = <<last.arg>>
           /\ down[N0] = last.arg
           /\ right[last.arg] = last.arg
           /\ push_front(Pre, N0, last.arg) = push_back(Pre, N0, last.arg)
           /\ Heap = push_back(Pre, N0, last.arg)

\* reached: a tree with children of its own was pushed onto a leafless node
\* with push_front
C15_Witness ==
    /\ last.op = "push_front"
    /\ is_leaf(Pre, N0)
    /\ ~is_leaf(Heap, last.arg)

\* ---- C16 -----------------------------------------------------------------------
\* the direct children of the receiving node before or after the call
Touched == Range(C0) \cup Range(children(Heap, N0))

\* C16: push_front, push_back, pop_front, prepend and append on N change no
\* down but N's and no right but those of N's children before or after the
\* call; N.right, every child's subtree and every node's data are unchanged.
C16_FrameOfEdits ==
    last.op \in Ops =>
        LET T == Touched IN
        /\ \A n \in Nodes \ {N0} : down[n] = last.down0[n]
        /\ \A n \in Nodes \ T : right[n] = last.right0[n]
        /\ right[N0] = last.right0[N0]
        /\ \A c \in T : Subtree(Heap, c) = Subtree(Pre, c)
        /\ data = last.data0

\* reached: a pop_front detached a child that has children of its own
C16_Witness ==
    /\ last.op = "pop_front"
    /\ last.ret # Null
    /\ ~is_leaf(Heap, last.ret)

\* ---- C17 -----------------------------------------------------------------------
\* how many entries the child lists of the nodes in S have altogether
RECURSIVE ChildEntries(_)
ChildEntries(S) ==
    IF S = {} THEN 0
    ELSE LET p == CHOOSE x \in S : TRUE
         IN  Len(children(Heap, p)) + ChildEntries(S \ {p})

AllChildren == UNION {Range(children(Heap, p)) : p \in live}
Roots == trees \cup UNION {Range(chain(Heap, f)) : f \in forests}

\* C17: what the handles own is a finite forest of live nodes: no node is
\* below itself, no node is in the child list of two parents or twice in
\* one (the child lists have as many entries altogether as there are
\* distinct children), and the roots the handles hold are in no child list.
C17_OwnedIsForest ==
    /\ Owned \subseteq live
    /\ \A n \in live : n \notin Reach(Heap, down[n])
    /\ Cardinality(AllChildren) = ChildEntries(live)
    /\ Roots \cap AllChildren = {}

\* reached: a node with a grandchild while a forest of two trees exists
C17_Witness ==
    /\ \E n \in live : \E c \in Range(children(Heap, n)) : ~is_leaf(Heap, c)
    /\ \E f \in forests : Len(chain(Heap, f)) >= 2 /\ ~is_leaf(Heap, f)
    /\ last.op \in Ops

\* ---- C14 -----------------------------------------------------------------------
\* C14: children() and children_mut() on a non-leaf node yield the nodes from
\* down.right along right to down inclusive, each node of that cycle once; on
\* a leafless node they yield nothing; the traversal changes no down or right.
C14_TraversalSequence ==
    last.op \in {"children", "children_mut"} =>
        LET c == last.items IN
        /\ Heap = Pre
        /\ live = last.live0 /\ trees = last.trees0 /\ forests = last.forests0
        /\ is_leaf(Heap, N0) => c = <<>>
        /\ ~is_leaf(Heap, N0) =>
               /\ Len(c) >= 1
               /\ Null \notin Range(c)
               /\ c[1] = right[down[N0]]
               /\ c[Len(c)] = down[N0]
               /\ \A i \in 1..(Len(c) - 1) : c[i + 1] = right[c[i]]
               /\ NoDup(c)
               /\ Range(c) = Orbit(Heap, {down[N0]}, MaxNodes)

\* reached: children_mut() ran over three children
C14_Witness ==
    /\ last.op = "children_mut"
    /\ Len(last.items) >= 3

\* ---- C18 -----------------------------------------------------------------------
\* push_back(t1), ..., push_back(tk) called one after the other
RECURSIVE PushBackUpTo(_, _, _, _)
PushBackUpTo(h, self, ts, k) ==
    IF k = 0 THEN h ELSE push_back(PushBackUpTo(h, self, ts, k - 1), self, ts[k])

\* C18: extend with trees t1..tn leaves the former children followed by
\* t1..tn in order, which is the heap that push_back(t1), ..., push_back(tn)
\* leave; down is tn's root for n > 0 and unchanged for n = 0.
C18_ExtendIsPushBacks ==
    last.op = "extend" =>
        LET ts == last.items IN
        /\ children(Heap, N0) = C0 \o ts
        /\ Heap = PushBackUpTo(Pre, N0, ts, Len(ts))
        /\ Len(ts) > 0 => down[N0] = ts[Len(ts)]
        /\ Len(ts) = 0 => down[N0] = Pre.down[N0]
        /\ live = last.live0
        /\ trees = last.trees0 \ Range(ts)

\* reached: two trees were added by extend to a node that had a child
C18_Witness ==
    /\ last.op = "extend"
    /\ Len(C0) >= 1
    /\ Len(last.items) >= 2

\* ---- C19 -----------------------------------------------------------------------
\* a subtree as a value without addresses: the payload and the children's values
RECURSIVE Val(_, _)
Val(n, fuel) ==
    IF n = Null \/ fuel = 0 THEN <<>>
    ELSE LET c == children(Heap, n)
         IN  <<data[n], [i \in 1..Len(c) |-> Val(c[i], fuel - 1)]>>

Eq(a, b) == node_eq(Heap, data, a, b)
Ne(a, b) == node_ne(Heap, data, a, b)
Cmp(a, b) == node_cmp(Heap, data, a, b)
Kids(n) == children(Heap, n)

\* C19: a == b exactly when the payloads are equal and the child sequences
\* have one length and equal elements in order, that is exactly when the two
\* subtrees are the same value; == is reflexive and != is its negation.
C19_EqStructural ==
    \A a, b \in live :
        /\ Eq(a, a)
        /\ Eq(a, b) <=> Val(a, MaxNodes) = Val(b, MaxNodes)
        /\ Eq(a, b) <=> /\ data[a] = data[b]
                        /\ Len(Kids(a)) = Len(Kids(b))
                        /\ \A i \in 1..Len(Kids(a)) :
                               i <= Len(Kids(b)) => Eq(Kids(a)[i], Kids(b)[i])
        /\ Ne(a, b) <=> ~Eq(a, b)

\* reached: two trees of the same shape and root payload that differ in a
\* child's payload only, and so are unequal
C19_Witness ==
    \E a, b \in live :
        /\ a # b
        /\ data[a] = data[b]
        /\ Len(Kids(a)) = 1 /\ Len(Kids(b)) = 1
        /\ data[Kids(a)[1]] # data[Kids(b)[1]]
        /\ ~Eq(a, b)
        /\ Eq(Kids(a)[1], Kids(a)[1])

\* ---- C20 -----------------------------------------------------------------------
Reverse(o) == IF o = "Less" THEN "Greater" ELSE IF o = "Greater" THEN "Less" ELSE o

\* the first position at which the two child sequences hold unequal nodes
FirstDiff(a, b) ==
    {i \in 1..Len(Kids(a)) :
        /\ i <= Len(Kids(b))
        /\ Cmp(Kids(a)[i], Kids(b)[i]) # "Equal"
        /\ \A j \in 1..(i - 1) : Cmp(Kids(a)[j], Kids(b)[j]) = "Equal"}

\* C20: cmp is decided by the payloads when they differ, otherwise by the
\* first unequal pair of children, otherwise the shorter child sequence is
\* Less; cmp is Equal exactly when a == b; cmp(a, b) is cmp(b, a) reversed.
C20_CmpLexicographic ==
    \A a, b \in live :
        /\ data[a] < data[b] => Cmp(a, b) = "Less"
        /\ data[a] > data[b] => Cmp(a, b) = "Greater"
        /\ data[a] = data[b] =>
               /\ \A i \in FirstDiff(a, b) : Cmp(a, b) = Cmp(Kids(a)[i], Kids(b)[i])
               /\ FirstDiff(a, b) = {} =>
                      /\ Len(Kids(a)) < Len(Kids(b)) => Cmp(a, b) = "Less"
                      /\ Len(Kids(a)) > Len(Kids(b)) => Cmp(a, b) = "Greater"
                      /\ Len(Kids(a)) = Len(Kids(b)) => Cmp(a, b) = "Equal"
        /\ Cmp(a, b) = "Equal" <=> Eq(a, b)
        /\ Cmp(a, b) = Reverse(Cmp(b, a))
        /\ node_partial_cmp(Heap, data, a, b) = Cmp(a, b)

\* reached: two nodes with equal payloads where one has a child and the
\* other has none, and two children that differ in payload
C20_Witness ==
    \E a, b \in live :
        /\ data[a] = data[b]
        /\ is_leaf(Heap, a)
        /\ Len(Kids(b)) = 2
        /\ data[Kids(b)[1]] # data[Kids(b)[2]]
        /\ Cmp(a, b) = "Less"
====
